---- MODULE Spec2Model ----
(***************************************************************************)
(* Support-ticket tracker (src/app.py): the tickets, timeline, technicians *)
(* and users tables, the browser session, and one action per HTTP handler. *)
(*                                                                         *)
(* Text values are sequences of tokens: a token is either the blank " "    *)
(* or an indivisible run of non-blank text, so that str.strip(), the       *)
(* truth value of a string and f-string concatenation are computed, not    *)
(* assumed.  Timestamps are integers (the ISO text of a fixed-offset       *)
(* clock orders as the instants do); NULL is the SQL NULL of a nullable    *)
(* TEXT column.                                                            *)
(***************************************************************************)
EXTENDS Integers, Sequences, FiniteSets, TLC

VARIABLES tickets, timeline, technicians, users, session, now, inflight

vars == <<tickets, timeline, technicians, users, session, now, inflight>>

(***************************** bounds **************************************)
MaxTickets == 1
MaxTimeline == 3
MaxClock == 1
MaxTechnicians == 3
MaxUsers == 3
PairMaxTickets == 2
PairMaxTimeline == 2
PairMaxTechnicians == 4
MaxInflight == 2
IntakeMaxTickets == 2
DashMaxTickets == 2
DashMaxTimeline == 3
DashMaxClock == 2

(***************************** text ****************************************)
Str(t) == <<t>>
Empty == <<>>
Blank == " "

\* a form field or JSON key that the request does not carry; JSON null
Missing == <<"\\missing">>
None == <<"\\null">>

NULL == -1

RECURSIVE lstrip(_)
lstrip(s) == IF s # <<>> /\ Head(s) = Blank THEN lstrip(Tail(s)) ELSE s

RECURSIVE rstrip(_)
rstrip(s) ==
    IF s # <<>> /\ s[Len(s)] = Blank THEN rstrip(SubSeq(s, 1, Len(s) - 1)) ELSE s

strip(s) == rstrip(lstrip(s))

\* request.form.get(key, default) / payload.get(key, default)
FieldOr(v, default) == IF v = Missing THEN default ELSE v

\* request.form.get(key) or default
FieldOrDefault(v, default) == IF v = Missing \/ v = None \/ v = Empty THEN default ELSE v

(***************************** program constants ***************************)
SinAsignar == Str("Sin asignar")
Pendiente == "Pendiente"
EnProgreso == "En progreso"
Cerrado == "Cerrado"
DispatcherSentinel == Str("dispatcher")

LauraEmail == Str("laura.gomez@miempresa.com")
CarlosEmail == Str("carlos.perez@miempresa.com")
AnaEmail == Str("ana.rojas@miempresa.com")

DEFAULT_TECHNICIANS ==
    << [name |-> Str("Laura Gomez"), email |-> LauraEmail, specialty |-> Str("Redes")],
       [name |-> Str("Carlos Perez"), email |-> CarlosEmail, specialty |-> Str("Software")],
       [name |-> Str("Ana Rojas"), email |-> AnaEmail, specialty |-> Str("Hardware")] >>

AdminIdentifier == Str("admin@miempresa.com")
AdminPassword == Str("admin123")

DefaultEmailFrom == Str("cliente@dominio.com")
DefaultSubject == Str("Sin asunto")
DefaultBody == Str("Sin detalle")

EventCreated == Str("Ticket creado")
EventClosed == Str("Ticket cerrado")

(***************************** database rows *****************************)
\* _hash_password: the digest of salt followed by password (the salt has a
\* fixed width, so the concatenation determines both parts)
_hash_password(password, salt) == [sha256 |-> salt \o password]

\* secrets.token_hex(8): the values the generator may return
Salts == {Str("5f2c")}

TicketRow(email_from, subject, body, assigned_to, status, created_at) ==
    [email_from |-> email_from, subject |-> subject, body |-> body,
     assigned_to |-> assigned_to, status |-> status,
     created_at |-> created_at, closed_at |-> NULL]

TimelineRow(ticket_id, event, created_at) ==
    [ticket_id |-> ticket_id, event |-> event, created_at |-> created_at]

TechnicianRow(name, email, specialty, is_active) ==
    [name |-> name, email |-> email, specialty |-> specialty, is_active |-> is_active]

UserRow(role, identifier, password_hash, salt) ==
    [role |-> role, identifier |-> identifier, password_hash |-> password_hash,
     salt |-> salt, last_login |-> NULL]

\* NOT NULL columns reject None; a missing JSON key never reaches the row
NotNullOk(row) ==
    /\ row.email_from # None
    /\ row.subject # None
    /\ row.body # None

\* UPDATE tickets SET <columns of set> WHERE id = ?  (no row changes when
\* the id does not exist)
UpdateTicket(tks, ticket_id, set) ==
    [i \in DOMAIN tks |->
        IF i = ticket_id
        THEN [column \in DOMAIN tks[i] |->
                 IF column \in DOMAIN set THEN set[column] ELSE tks[i][column]]
        ELSE tks[i]]

\* a variant that writes the new entry at the head of the log
InsertTimeline_Front(tl, ticket_id, event, created_at) ==
    <<TimelineRow(ticket_id, event, created_at)>> \o tl

\* INSERT INTO timeline: the FOREIGN KEY clause is declared, and SQLite
\* enforces it only under PRAGMA foreign_keys = ON, which _get_connection
\* never issues: the row is inserted whatever ticket_id is
InsertTimeline(tl, ticket_id, event, created_at) ==
    Append(tl, TimelineRow(ticket_id, event, created_at))

(***************************** session ***********************************)
GuestSession == [role |-> "guest", technician_email |-> Empty, user_identifier |-> Empty]

_get_user_context ==
    [role |-> session.role,
     technician_email |-> session.technician_email,
     identifier |-> session.user_identifier]

OpenEndpoints ==
    {"login_home", "login_admin", "login_dispatcher", "login_technician",
     "intake_email", "static"}

\* a variant whose list of open endpoints also names the ticket form
enforce_login_OpenForm(endpoint) ==
    endpoint \notin (OpenEndpoints \cup {"create_ticket"})
        /\ _get_user_context.role = "guest"

\* before_request: TRUE when the request is answered by the redirect to login
enforce_login(endpoint) ==
    endpoint \notin OpenEndpoints /\ _get_user_context.role = "guest"

(***************************** responses *********************************)
Redirect(endpoint, ticket_id) ==
    [status |-> 302, endpoint |-> endpoint, ticket_id |-> ticket_id]
Render(template, status) ==
    [status |-> status, endpoint |-> template, ticket_id |-> 0]
Json(ticket_id) ==
    [status |-> 200, endpoint |-> "json", ticket_id |-> ticket_id]
ServerError == [status |-> 500, endpoint |-> "error", ticket_id |-> 0]

\* the outcome of a handler: the tables and session it leaves, and its response
Outcome(resp) ==
    [tickets |-> tickets, timeline |-> timeline, technicians |-> technicians,
     users |-> users, session |-> session, response |-> resp]

(***************************** requests in flight ************************)
\* A handler that writes tickets runs in steps: it reads the session and the
\* clock, then opens "with _get_connection() as connection", executes its
\* two statements and commits when the block ends.  inflight holds the
\* requests between those steps.  tickets and timeline are the committed
\* tables, which every other connection reads; a request's own uncommitted
\* writes are in its record (SQLite shows them to no other connection).
Slots == 1..MaxInflight

Idle ==
    [pc |-> "idle", kind |-> "", ticket_id |-> 0, write |-> <<>>, event |-> <<>>,
     stamp |-> 0, tickets |-> <<>>, timeline |-> <<>>]

\* between its first statement and its commit a connection holds the
\* database's write lock
InTransaction(req) == req.pc \in {"updated", "appended"}

LockFree == \A s \in Slots : ~InTransaction(inflight[s])

(***************************** initial state *****************************)
init_db_technicians ==
    [i \in 1..Len(DEFAULT_TECHNICIANS) |->
        TechnicianRow(DEFAULT_TECHNICIANS[i].name, DEFAULT_TECHNICIANS[i].email,
                      DEFAULT_TECHNICIANS[i].specialty, 1)]

init_db_users(salt) ==
    << UserRow(Str("admin"), AdminIdentifier, _hash_password(AdminPassword, salt), salt) >>

Init ==
    /\ tickets = <<>>
    /\ timeline = <<>>
    /\ technicians = init_db_technicians
    /\ \E salt \in Salts : users = init_db_users(salt)
    /\ session = GuestSession
    /\ now = 0
    /\ inflight = [s \in Slots |-> Idle]

(***************************** ticket lifecycle **************************)
\* a variant that forgets the ticket's first timeline entry
_create_ticket_NoEntry(email_from, subject, body) ==
    LET created_at == now
        row == TicketRow(email_from, subject, body, SinAsignar, Pendiente, created_at)
        ticket_id == Len(tickets) + 1
    IN  IF NotNullOk(row)
        THEN [raised |-> FALSE, ticket_id |-> ticket_id,
              tickets |-> Append(tickets, row), timeline |-> timeline]
        ELSE [raised |-> TRUE, ticket_id |-> 0,
              tickets |-> tickets, timeline |-> timeline]

\* a variant that answers with the id of the row before the new one
_create_ticket_StaleId(email_from, subject, body) ==
    LET created_at == now
        row == TicketRow(email_from, subject, body, SinAsignar, Pendiente, created_at)
        ticket_id == Len(tickets)
    IN  IF NotNullOk(row)
        THEN [raised |-> FALSE, ticket_id |-> ticket_id,
              tickets |-> Append(tickets, row),
              timeline |-> InsertTimeline(timeline, ticket_id, EventCreated, created_at)]
        ELSE [raised |-> TRUE, ticket_id |-> 0,
              tickets |-> tickets, timeline |-> timeline]

\* _create_ticket: one transaction inserting the ticket and its first
\* timeline entry; a None in a NOT NULL column raises and rolls back
_create_ticket(email_from, subject, body) ==
    LET created_at == now
        row == TicketRow(email_from, subject, body, SinAsignar, Pendiente, created_at)
        ticket_id == Len(tickets) + 1
    IN  IF NotNullOk(row)
        THEN [raised |-> FALSE, ticket_id |-> ticket_id,
              tickets |-> Append(tickets, row),
              timeline |-> InsertTimeline(timeline, ticket_id, EventCreated, created_at)]
        ELSE [raised |-> TRUE, ticket_id |-> 0,
              tickets |-> tickets, timeline |-> timeline]

\* POST /tickets
create_ticket(form) ==
    IF enforce_login("create_ticket")
    THEN Outcome(Redirect("login_home", 0))
    ELSE LET email_from == FieldOrDefault(form.email_from, DefaultEmailFrom)
             subject == FieldOrDefault(form.subject, DefaultSubject)
             body == FieldOrDefault(form.body, DefaultBody)
             c == _create_ticket(email_from, subject, body)
         IN  [Outcome(Redirect("ticket_detail", c.ticket_id))
                 EXCEPT !.tickets = c.tickets, !.timeline = c.timeline]

\* POST /intake/email
intake_email(payload) ==
    LET email_from == FieldOr(payload.email_from, DefaultEmailFrom)
        subject == FieldOr(payload.subject, DefaultSubject)
        body == FieldOr(payload.body, DefaultBody)
        c == _create_ticket(email_from, subject, body)
    IN  IF c.raised
        THEN Outcome(ServerError)
        ELSE [Outcome(Json(c.ticket_id))
                 EXCEPT !.tickets = c.tickets, !.timeline = c.timeline]

\* a variant that stamps closed_at only when the ticket has none yet
close_ticket_KeepsStamp(ticket_id) ==
    LET user == _get_user_context
        closed_at == now
        first == ticket_id \notin DOMAIN tickets \/ tickets[ticket_id].closed_at = NULL
        Close == [status |-> Cerrado,
                  closed_at |-> IF first THEN closed_at ELSE tickets[ticket_id].closed_at]
    IN  IF enforce_login("close_ticket")
        THEN Outcome(Redirect("login_home", 0))
        ELSE IF user.role \notin {"admin", "technician"}
        THEN Outcome(Redirect("ticket_detail", ticket_id))
        ELSE [Outcome(Redirect("ticket_detail", ticket_id))
                 EXCEPT !.tickets = UpdateTicket(tickets, ticket_id, Close),
                        !.timeline = InsertTimeline(timeline, ticket_id,
                                                    EventClosed, closed_at)]

\* POST /tickets/<id>/close
close_ticket(ticket_id) ==
    LET user == _get_user_context
        closed_at == now
        Close == [status |-> Cerrado, closed_at |-> closed_at]
    IN  IF enforce_login("close_ticket")
        THEN Outcome(Redirect("login_home", 0))
        ELSE IF user.role \notin {"admin", "technician"}
        THEN Outcome(Redirect("ticket_detail", ticket_id))
        ELSE [Outcome(Redirect("ticket_detail", ticket_id))
                 EXCEPT !.tickets = UpdateTicket(tickets, ticket_id, Close),
                        !.timeline = InsertTimeline(timeline, ticket_id,
                                                    EventClosed, closed_at)]

\* a variant that tests the comment before stripping it
comment_ticket_NoStrip(ticket_id, comment_field) ==
    LET user == _get_user_context
        comment == FieldOr(comment_field, Empty)
        created_at == now
    IN  IF enforce_login("comment_ticket")
        THEN Outcome(Redirect("login_home", 0))
        ELSE IF user.role # "technician"
        THEN Outcome(Redirect("ticket_detail", ticket_id))
        ELSE IF comment = Empty
        THEN Outcome(Redirect("ticket_detail", ticket_id))
        ELSE [Outcome(Redirect("ticket_detail", ticket_id))
                 EXCEPT !.timeline =
                     InsertTimeline(timeline, ticket_id,
                                    Str("Comentario técnico: ") \o strip(comment),
                                    created_at)]

\* POST /tickets/<id>/comment
comment_ticket(ticket_id, comment_field) ==
    LET user == _get_user_context
        comment == strip(FieldOr(comment_field, Empty))
        created_at == now
    IN  IF enforce_login("comment_ticket")
        THEN Outcome(Redirect("login_home", 0))
        ELSE IF user.role # "technician"
        THEN Outcome(Redirect("ticket_detail", ticket_id))
        ELSE IF comment = Empty
        THEN Outcome(Redirect("ticket_detail", ticket_id))
        ELSE [Outcome(Redirect("ticket_detail", ticket_id))
                 EXCEPT !.timeline =
                     InsertTimeline(timeline, ticket_id,
                                    Str("Comentario técnico: ") \o comment, created_at)]

\* SELECT * FROM technicians WHERE email = ?  (no row, or the one row)
_get_technician_by_email(email) ==
    IF email = Empty \/ email = SinAsignar
    THEN <<>>
    ELSE SelectSeq(technicians, LAMBDA r : r.email = email)

\* a variant that, like assign_ticket, does not stop at an unknown technician
reassign_ticket_Unchecked(ticket_id, email_field, note_field) ==
    LET user == _get_user_context
        technician_email == FieldOr(email_field, Empty)
        note == strip(FieldOr(note_field, Empty))
        assigned_at == now
        found == _get_technician_by_email(technician_email)
        Return == [assigned_to |-> SinAsignar, status |-> Pendiente]
        Give == [assigned_to |-> technician_email, status |-> EnProgreso]
        actor == IF user.identifier # Empty THEN user.identifier ELSE Str("Técnico")
        label == IF found # <<>>
                 THEN found[1].name \o Str(" (") \o found[1].email \o Str(")")
                 ELSE SinAsignar
        returned == Str("Devuelto al derivador")
        reassigned == Str("Reasignado por ") \o actor \o Str(" a ") \o label
        WithNote(event) == IF note # Empty THEN event \o Str(": ") \o note ELSE event
    IN  IF enforce_login("reassign_ticket")
        THEN Outcome(Redirect("login_home", 0))
        ELSE IF user.role # "technician"
        THEN Outcome(Redirect("ticket_detail", ticket_id))
        ELSE IF technician_email = Empty
        THEN Outcome(Redirect("ticket_detail", ticket_id))
        ELSE IF technician_email = DispatcherSentinel
        THEN [Outcome(Redirect("ticket_detail", ticket_id))
                 EXCEPT !.tickets = UpdateTicket(tickets, ticket_id, Return),
                        !.timeline = InsertTimeline(timeline, ticket_id,
                                                    WithNote(returned), assigned_at)]
        ELSE [Outcome(Redirect("ticket_detail", ticket_id))
                 EXCEPT !.tickets = UpdateTicket(tickets, ticket_id, Give),
                        !.timeline = InsertTimeline(timeline, ticket_id,
                                                    WithNote(reassigned), assigned_at)]

\* POST /tickets/<id>/reassign
reassign_ticket(ticket_id, email_field, note_field) ==
    LET user == _get_user_context
        technician_email == FieldOr(email_field, Empty)
        note == strip(FieldOr(note_field, Empty))
        assigned_at == now
        found == _get_technician_by_email(technician_email)
        Return == [assigned_to |-> SinAsignar, status |-> Pendiente]
        Give == [assigned_to |-> technician_email, status |-> EnProgreso]
        actor == IF user.identifier # Empty THEN user.identifier ELSE Str("Técnico")
        returned == Str("Devuelto al derivador")
        reassigned == Str("Reasignado por ") \o actor \o Str(" a ")
                        \o found[1].name \o Str(" (") \o found[1].email \o Str(")")
        WithNote(event) == IF note # Empty THEN event \o Str(": ") \o note ELSE event
    IN  IF enforce_login("reassign_ticket")
        THEN Outcome(Redirect("login_home", 0))
        ELSE IF user.role # "technician"
        THEN Outcome(Redirect("ticket_detail", ticket_id))
        ELSE IF technician_email = Empty
        THEN Outcome(Redirect("ticket_detail", ticket_id))
        ELSE IF technician_email = DispatcherSentinel
        THEN [Outcome(Redirect("ticket_detail", ticket_id))
                 EXCEPT !.tickets = UpdateTicket(tickets, ticket_id, Return),
                        !.timeline = InsertTimeline(timeline, ticket_id,
                                                    WithNote(returned), assigned_at)]
        ELSE IF found = <<>>
        THEN Outcome(Redirect("ticket_detail", ticket_id))
        ELSE [Outcome(Redirect("ticket_detail", ticket_id))
                 EXCEPT !.tickets = UpdateTicket(tickets, ticket_id, Give),
                        !.timeline = InsertTimeline(timeline, ticket_id,
                                                    WithNote(reassigned), assigned_at)]

\* a variant that lets every logged-in role assign
assign_ticket_AnyRole(ticket_id, email_field) ==
    LET user == _get_user_context
        technician_email == FieldOrDefault(email_field, SinAsignar)
        found == _get_technician_by_email(technician_email)
        dispatcher == IF user.identifier # Empty THEN user.identifier ELSE Str("Derivador")
        assigned_label ==
            IF found # <<>>
            THEN found[1].name \o Str(" (") \o found[1].email \o Str(")")
            ELSE SinAsignar
        assigned_at == now
        Give == [assigned_to |-> technician_email, status |-> EnProgreso]
        event == Str("Derivado por ") \o dispatcher \o Str(" a ") \o assigned_label
    IN  IF enforce_login("assign_ticket")
        THEN Outcome(Redirect("login_home", 0))
        ELSE [Outcome(Redirect("ticket_detail", ticket_id))
                 EXCEPT !.tickets = UpdateTicket(tickets, ticket_id, Give),
                        !.timeline = InsertTimeline(timeline, ticket_id,
                                                    event, assigned_at)]

\* POST /tickets/<id>/assign
assign_ticket(ticket_id, email_field) ==
    LET user == _get_user_context
        technician_email == FieldOrDefault(email_field, SinAsignar)
        found == _get_technician_by_email(technician_email)
        dispatcher == IF user.identifier # Empty THEN user.identifier ELSE Str("Derivador")
        assigned_label ==
            IF found # <<>>
            THEN found[1].name \o Str(" (") \o found[1].email \o Str(")")
            ELSE SinAsignar
        assigned_at == now
        Give == [assigned_to |-> technician_email, status |-> EnProgreso]
        event == Str("Derivado por ") \o dispatcher \o Str(" a ") \o assigned_label
    IN  IF enforce_login("assign_ticket")
        THEN Outcome(Redirect("login_home", 0))
        ELSE IF user.role # "dispatcher"
        THEN Outcome(Redirect("ticket_detail", ticket_id))
        ELSE [Outcome(Redirect("ticket_detail", ticket_id))
                 EXCEPT !.tickets = UpdateTicket(tickets, ticket_id, Give),
                        !.timeline = InsertTimeline(timeline, ticket_id,
                                                    event, assigned_at)]

(***************************** authentication ****************************)
\* a variant whose SELECT looks the identifier up under any role
_authenticate_user_AnyRole(role, identifier, password) ==
    LET record == SelectSeq(users, LAMBDA u : u.identifier = identifier)
    IN  IF identifier = Empty \/ password = Empty
        THEN FALSE
        ELSE IF record = <<>>
        THEN FALSE
        ELSE _hash_password(password, record[1].salt) = record[1].password_hash

\* SELECT ... FROM users WHERE role = ? AND identifier = ?, then the digest test
_authenticate_user(role, identifier, password) ==
    LET record == SelectSeq(users, LAMBDA u : u.role = role /\ u.identifier = identifier)
    IN  IF identifier = Empty \/ password = Empty
        THEN FALSE
        ELSE IF record = <<>>
        THEN FALSE
        ELSE _hash_password(password, record[1].salt) = record[1].password_hash

\* UPDATE users SET last_login = ? WHERE identifier = ?
_record_login(identifier) ==
    [i \in DOMAIN users |->
        IF users[i].identifier = identifier
        THEN [users[i] EXCEPT !.last_login = now]
        ELSE users[i]]

LoggedIn(role, technician_email, identifier) ==
    [Outcome(Redirect("index", 0))
        EXCEPT !.users = _record_login(identifier),
               !.session = [role |-> role, technician_email |-> technician_email,
                            user_identifier |-> identifier]]

\* POST /login/admin
login_admin(form) ==
    LET identifier == strip(FieldOr(form.identifier, Empty))
        password == FieldOr(form.password, Empty)
    IN  IF _authenticate_user(Str("admin"), identifier, password)
        THEN LoggedIn("admin", Empty, identifier)
        ELSE Outcome(Render("login_admin.html", 200))

\* POST /login/dispatcher
login_dispatcher(form) ==
    LET identifier == strip(FieldOr(form.identifier, Empty))
        password == FieldOr(form.password, Empty)
    IN  IF _authenticate_user(Str("dispatcher"), identifier, password)
        THEN LoggedIn("dispatcher", Empty, identifier)
        ELSE Outcome(Render("login_dispatcher.html", 200))

\* POST /login/technician (the identifier is the technician_email field, unstripped)
login_technician(form) ==
    LET technician_email == FieldOr(form.identifier, Empty)
        password == FieldOr(form.password, Empty)
    IN  IF _authenticate_user(Str("technician"), technician_email, password)
        THEN LoggedIn("technician", technician_email, technician_email)
        ELSE Outcome(Render("login_technician.html", 200))

\* POST /logout
logout ==
    IF enforce_login("logout")
    THEN Outcome(Redirect("login_home", 0))
    ELSE [Outcome(Redirect("login_home", 0)) EXCEPT !.session = GuestSession]

(***************************** administration ****************************)
\* POST /admin/technicians: INSERT OR IGNORE (email is UNIQUE)
admin_technicians(form) ==
    LET user == _get_user_context
        name == strip(FieldOr(form.name, Empty))
        email == strip(FieldOr(form.email, Empty))
        specialty == strip(FieldOr(form.specialty, Empty))
        taken == \E i \in DOMAIN technicians : technicians[i].email = email
    IN  IF enforce_login("admin_technicians")
        THEN Outcome(Redirect("login_home", 0))
        ELSE IF user.role # "admin"
        THEN Outcome(Redirect("index", 0))
        ELSE IF name # Empty /\ email # Empty /\ specialty # Empty /\ ~taken
        THEN [Outcome(Redirect("admin_technicians", 0))
                 EXCEPT !.technicians =
                     Append(technicians, TechnicianRow(name, email, specialty, 1))]
        ELSE Outcome(Redirect("admin_technicians", 0))

\* POST /admin/technicians/<id>/update: a duplicate email raises
update_technician(tech_id, form) ==
    LET user == _get_user_context
        name == strip(FieldOr(form.name, Empty))
        email == strip(FieldOr(form.email, Empty))
        specialty == strip(FieldOr(form.specialty, Empty))
        is_active == IF form.is_active = Str("on") THEN 1 ELSE 0
        clash == /\ tech_id \in DOMAIN technicians
                 /\ \E i \in DOMAIN technicians :
                        i # tech_id /\ technicians[i].email = email
    IN  IF enforce_login("update_technician")
        THEN Outcome(Redirect("login_home", 0))
        ELSE IF user.role # "admin"
        THEN Outcome(Redirect("index", 0))
        ELSE IF name # Empty /\ email # Empty /\ specialty # Empty
        THEN IF clash
             THEN Outcome(ServerError)
             ELSE [Outcome(Redirect("admin_technicians", 0))
                      EXCEPT !.technicians =
                          [i \in DOMAIN technicians |->
                              IF i = tech_id
                              THEN TechnicianRow(name, email, specialty, is_active)
                              ELSE technicians[i]]]
        ELSE Outcome(Redirect("admin_technicians", 0))

\* POST /admin/technicians/<id>/disable
disable_technician(tech_id) ==
    LET user == _get_user_context
    IN  IF enforce_login("disable_technician")
        THEN Outcome(Redirect("login_home", 0))
        ELSE IF user.role # "admin"
        THEN Outcome(Redirect("index", 0))
        ELSE [Outcome(Redirect("admin_technicians", 0))
                 EXCEPT !.technicians =
                     [i \in DOMAIN technicians |->
                         IF i = tech_id
                         THEN [technicians[i] EXCEPT !.is_active = 0]
                         ELSE technicians[i]]]

\* _upsert_user: update the (role, identifier) row or insert one; identifier
\* is UNIQUE, so inserting one held under another role raises
_upsert_user(role, identifier, password, salt) ==
    LET password_hash == _hash_password(password, salt)
        existing == {i \in DOMAIN users :
                        users[i].role = role /\ users[i].identifier = identifier}
        taken == \E i \in DOMAIN users : users[i].identifier = identifier
    IN  IF existing # {}
        THEN [raised |-> FALSE,
              users |-> [i \in DOMAIN users |->
                            IF i \in existing
                            THEN [users[i] EXCEPT !.password_hash = password_hash,
                                                  !.salt = salt]
                            ELSE users[i]]]
        ELSE IF taken
        THEN [raised |-> TRUE, users |-> users]
        ELSE [raised |-> FALSE,
              users |-> Append(users, UserRow(role, identifier, password_hash, salt))]

\* POST /admin/credentials
admin_credentials(form, salt) ==
    LET user == _get_user_context
        action == FieldOr(form.action, Str("upsert"))
        role == strip(FieldOr(form.role, Empty))
        identifier == strip(FieldOr(form.identifier, Empty))
        password == FieldOr(form.password, Empty)
        admin_identifier == user.identifier
        Upsert(r, ident) ==
            LET u == _upsert_user(r, ident, password, salt)
            IN  IF u.raised
                THEN Outcome(ServerError)
                ELSE [Outcome(Redirect("admin_credentials", 0)) EXCEPT !.users = u.users]
    IN  IF enforce_login("admin_credentials")
        THEN Outcome(Redirect("login_home", 0))
        ELSE IF user.role # "admin"
        THEN Outcome(Redirect("index", 0))
        ELSE IF action = Str("update_admin")
        THEN IF admin_identifier # Empty /\ password # Empty
             THEN Upsert(Str("admin"), admin_identifier)
             ELSE Outcome(Redirect("admin_credentials", 0))
        ELSE IF role \in {Str("dispatcher"), Str("technician")}
                /\ identifier # Empty /\ password # Empty
        THEN Upsert(role, identifier)
        ELSE Outcome(Redirect("admin_credentials", 0))

(***************************** metrics ***********************************)
\* one step of the clock, in seconds
TickSeconds == 30 * 60

\* (closed_at - created_at).total_seconds()
total_seconds(created_at, closed_at) == (closed_at - created_at) * TickSeconds

\* round(numerator / denominator, 0), halves to the even neighbour
\* (numerator >= 0, denominator > 0)
RoundHalfEven(numerator, denominator) ==
    LET q == numerator \div denominator
        r == numerator % denominator
    IN  IF 2 * r < denominator THEN q
        ELSE IF 2 * r > denominator THEN q + 1
        ELSE IF q % 2 = 0 THEN q ELSE q + 1

\* a variant that takes a ticket for closed when its status says so
RECURSIVE MetricsLoop_ByStatus(_, _, _)
MetricsLoop_ByStatus(tks, k, acc) ==
    IF k > Len(tks)
    THEN acc
    ELSE IF tks[k].status = Cerrado
    THEN MetricsLoop_ByStatus(tks, k + 1,
             [acc EXCEPT !.sum = @ + total_seconds(tks[k].created_at, tks[k].closed_at),
                         !.len = @ + 1])
    ELSE MetricsLoop_ByStatus(tks, k + 1, [acc EXCEPT !.open_tickets = @ + 1])

\* the loop of _calculate_metrics over tks[k..]: the durations gathered (their
\* sum and number) and the open tickets counted
RECURSIVE MetricsLoop(_, _, _)
MetricsLoop(tks, k, acc) ==
    IF k > Len(tks)
    THEN acc
    ELSE IF tks[k].closed_at # NULL
    THEN MetricsLoop(tks, k + 1,
             [acc EXCEPT !.sum = @ + total_seconds(tks[k].created_at, tks[k].closed_at),
                         !.len = @ + 1])
    ELSE MetricsLoop(tks, k + 1, [acc EXCEPT !.open_tickets = @ + 1])

\* ZeroDivisionError, as a fraction no average equals
DivisionByZero == [numerator |-> 0 - 1, denominator |-> 1]

\* a variant without the "if durations" guard: an empty list raises
average_seconds_Unguarded(acc) ==
    IF acc.len # 0 THEN [numerator |-> acc.sum, denominator |-> acc.len]
    ELSE DivisionByZero

\* sum(durations) / len(durations) if durations else 0, as a fraction
average_seconds(acc) ==
    IF acc.len # 0 THEN [numerator |-> acc.sum, denominator |-> acc.len]
    ELSE [numerator |-> 0, denominator |-> 1]

\* _calculate_metrics; avg_hours is in hundredths of an hour, which is what
\* round(average_seconds / 3600, 2) keeps
_calculate_metrics(tks) ==
    LET acc == MetricsLoop(tks, 1, [sum |-> 0, len |-> 0, open_tickets |-> 0])
        avg == average_seconds(acc)
    IN  [total |-> Len(tks),
         open |-> acc.open_tickets,
         closed |-> Len(tks) - acc.open_tickets,
         avg_hours |-> IF avg.numerator < 0 THEN avg.numerator
                       ELSE RoundHalfEven(avg.numerator * 100, avg.denominator * 3600)]

NoMetrics == [total |-> 0, open |-> 0, closed |-> 0, avg_hours |-> 0]

\* GET /dashboard: the page and the metrics it shows
dashboard ==
    LET user == _get_user_context
    IN  IF enforce_login("dashboard")
        THEN [outcome |-> Outcome(Redirect("login_home", 0)), metrics |-> NoMetrics]
        ELSE IF user.role = "technician"
        THEN [outcome |-> Outcome(Redirect("index", 0)), metrics |-> NoMetrics]
        ELSE [outcome |-> Outcome(Render("dashboard.html", 200)),
              metrics |-> _calculate_metrics(tickets)]

(***************************** request inputs ****************************)
DispatcherId == Str("mesa@miempresa.com")
UnknownEmail == Str("nadie@miempresa.com")
RosaEmail == Str("rosa.diaz@miempresa.com")
Clave1 == Str("clave1")
Clave2 == Str("clave2")

\* <int:ticket_id>: every id the exploration can create (an id is unknown until then)
TicketIdInputs(B) == 1..B.tickets

TicketForms ==
    { [email_from |-> Missing, subject |-> Missing, body |-> Missing],
      [email_from |-> Empty, subject |-> Empty, body |-> Empty] }

IntakePayloads ==
    { [email_from |-> Missing, subject |-> Missing, body |-> Missing],
      [email_from |-> None, subject |-> None, body |-> None] }

TechnicianEmailInputs == {Missing, DispatcherSentinel, LauraEmail, RosaEmail}

CommentInputs == {Missing, <<Blank>>, <<Blank, "revisado", Blank>>}

NoteInputs == {Missing, <<Blank>>}

LoginForms ==
    { [identifier |-> <<Blank>> \o AdminIdentifier, password |-> AdminPassword],
      [identifier |-> AdminIdentifier, password |-> Clave1],
      [identifier |-> DispatcherId, password |-> Clave1],
      [identifier |-> LauraEmail, password |-> Clave1],
      [identifier |-> Missing, password |-> Missing] }

TechnicianForms ==
    { [name |-> Str("Rosa Diaz"), email |-> <<Blank>> \o RosaEmail,
       specialty |-> Str("Redes")],
      [name |-> Str("Laura Gomez"), email |-> LauraEmail, specialty |-> Str("Redes")],
      [name |-> <<Blank>>, email |-> UnknownEmail, specialty |-> Missing] }

\* <int:tech_id>: a row the exploration administers, and an id no row has
TechIdInputs(B) == {B.tech_id, B.technicians + 1}

LauraForm ==
    [name |-> Str("Laura Gomez"), email |-> LauraEmail, specialty |-> Str("Redes")]

RosaForm ==
    [name |-> Str("Rosa Diaz"), email |-> RosaEmail, specialty |-> Str("Redes")]

\* the edit form of the administered row, with and without the "active" box,
\* and one with the name blanked
UpdateForms(B) ==
    { [name |-> B.tech_form.name, email |-> B.tech_form.email,
       specialty |-> B.tech_form.specialty, is_active |-> Str("on")],
      [name |-> B.tech_form.name, email |-> B.tech_form.email,
       specialty |-> B.tech_form.specialty, is_active |-> Missing],
      [name |-> <<Blank>>, email |-> B.tech_form.email,
       specialty |-> B.tech_form.specialty, is_active |-> Missing] }

CredentialForms ==
    { [action |-> Missing, role |-> Str("dispatcher"),
       identifier |-> DispatcherId, password |-> Clave1],
      [action |-> Str("upsert"), role |-> <<Blank, "technician">>,
       identifier |-> LauraEmail \o <<Blank>>, password |-> Clave1],
      [action |-> Missing, role |-> Str("dispatcher"),
       identifier |-> AdminIdentifier, password |-> Clave1],
      [action |-> Missing, role |-> Str("admin"),
       identifier |-> UnknownEmail, password |-> Clave1],
      [action |-> Missing, role |-> Str("technician"),
       identifier |-> UnknownEmail, password |-> Missing],
      [action |-> Str("update_admin"), role |-> Missing,
       identifier |-> Missing, password |-> AdminPassword] }

(***************************** actions ***********************************)
\* the bounds of an exploration: rows per table and the last clock value
DeskBounds ==
    [tickets |-> MaxTickets, timeline |-> MaxTimeline, technicians |-> MaxTechnicians,
     users |-> MaxUsers, clock |-> MaxClock, tech_id |-> 1, tech_form |-> LauraForm]

PairBounds ==
    [tickets |-> PairMaxTickets, timeline |-> PairMaxTimeline,
     technicians |-> PairMaxTechnicians, users |-> MaxUsers, clock |-> MaxClock,
     tech_id |-> PairMaxTechnicians, tech_form |-> RosaForm]

\* a request is served: its outcome becomes the state (within the bounds B);
\* one that writes a table waits while another connection holds the write lock
Commit(o, B) ==
    /\ <<o.tickets, o.timeline, o.technicians, o.users>>
            # <<tickets, timeline, technicians, users>> => LockFree
    /\ Len(o.tickets) <= B.tickets
    /\ Len(o.timeline) <= B.timeline
    /\ Len(o.technicians) <= B.technicians
    /\ Len(o.users) <= B.users
    /\ tickets' = o.tickets
    /\ timeline' = o.timeline
    /\ technicians' = o.technicians
    /\ users' = o.users
    /\ session' = o.session
    /\ UNCHANGED <<now, inflight>>

CreateTicket(B) == \E form \in TicketForms : Commit(create_ticket(form), B)

IntakeEmail(B) == \E payload \in IntakePayloads : Commit(intake_email(payload), B)

CloseTicket(B) == \E ticket_id \in TicketIdInputs(B) : Commit(close_ticket(ticket_id), B)

CommentTicket(B) ==
    \E ticket_id \in TicketIdInputs(B), comment \in CommentInputs :
        Commit(comment_ticket(ticket_id, comment), B)

ReassignTicket(B) ==
    \E ticket_id \in TicketIdInputs(B), email \in TechnicianEmailInputs, note \in NoteInputs :
        Commit(reassign_ticket(ticket_id, email, note), B)

AssignTicket(B) ==
    \E ticket_id \in TicketIdInputs(B), email \in TechnicianEmailInputs :
        Commit(assign_ticket(ticket_id, email), B)

LoginAdmin(B) == \E form \in LoginForms : Commit(login_admin(form), B)

LoginDispatcher(B) == \E form \in LoginForms : Commit(login_dispatcher(form), B)

LoginTechnician(B) == \E form \in LoginForms : Commit(login_technician(form), B)

Logout(B) == Commit(logout, B)

AdminTechnicians(B) == \E form \in TechnicianForms : Commit(admin_technicians(form), B)

UpdateTechnician(B) ==
    \E tech_id \in TechIdInputs(B), form \in UpdateForms(B) :
        Commit(update_technician(tech_id, form), B)

DisableTechnician(B) ==
    \E tech_id \in TechIdInputs(B) : Commit(disable_technician(tech_id), B)

AdminCredentials(B) ==
    \E form \in CredentialForms, salt \in Salts : Commit(admin_credentials(form, salt), B)

\* the wall clock moves on between requests
Tick(B) ==
    /\ now < B.clock
    /\ now' = now + 1
    /\ UNCHANGED <<tickets, timeline, technicians, users, session, inflight>>

Requests(B) ==
    \/ CreateTicket(B)
    \/ IntakeEmail(B)
    \/ CloseTicket(B)
    \/ CommentTicket(B)
    \/ ReassignTicket(B)
    \/ AssignTicket(B)
    \/ LoginAdmin(B)
    \/ LoginDispatcher(B)
    \/ LoginTechnician(B)
    \/ Logout(B)
    \/ AdminTechnicians(B)
    \/ UpdateTechnician(B)
    \/ DisableTechnician(B)
    \/ AdminCredentials(B)
    \/ Tick(B)

\* one ticket followed through its life
Next == Requests(DeskBounds)

Spec == Init /\ [][Next]_vars

\* two tickets side by side, and a directory that grows
NextPair == Requests(PairBounds)

SpecPair == Init /\ [][NextPair]_vars

(***************************** ticket intake *****************************)
\* a subject that names the network
RedSubject == <<"sin", Blank, "red">>

\* the form of POST /tickets: fields absent, empty, filled in
IntakeForms ==
    { [email_from |-> Missing, subject |-> Missing, body |-> Missing],
      [email_from |-> Empty, subject |-> Empty, body |-> Empty],
      [email_from |-> Missing, subject |-> RedSubject, body |-> Empty] }

\* the JSON of POST /intake/email: keys absent, null, empty, filled in
IntakeJson ==
    { [email_from |-> Missing, subject |-> Missing, body |-> Missing],
      [email_from |-> None, subject |-> None, body |-> None],
      [email_from |-> Empty, subject |-> Empty, body |-> Empty],
      [email_from |-> Missing, subject |-> Missing, body |-> RedSubject] }

IntakeBounds ==
    [tickets |-> IntakeMaxTickets, timeline |-> IntakeMaxTickets,
     technicians |-> MaxTechnicians, users |-> 1, clock |-> MaxClock,
     tech_id |-> 1, tech_form |-> LauraForm]

CreateTicketFrom(B) == \E form \in IntakeForms : Commit(create_ticket(form), B)

IntakeEmailFrom(B) == \E payload \in IntakeJson : Commit(intake_email(payload), B)

\* tickets come in by the form and by the JSON endpoint
NextIntake ==
    \/ CreateTicketFrom(IntakeBounds)
    \/ IntakeEmailFrom(IntakeBounds)
    \/ LoginAdmin(IntakeBounds)
    \/ Logout(IntakeBounds)
    \/ Tick(IntakeBounds)

SpecIntake == Init /\ [][NextIntake]_vars

(***************************** the dashboard *****************************)
DashBounds ==
    [tickets |-> DashMaxTickets, timeline |-> DashMaxTimeline,
     technicians |-> MaxTechnicians, users |-> 2, clock |-> DashMaxClock,
     tech_id |-> 1, tech_form |-> LauraForm]

Dashboard(B) == Commit(dashboard.outcome, B)

\* tickets are created, closed and handed back while the clock runs, and
\* the dashboard is read
NextDash ==
    \/ IntakeEmail(DashBounds)
    \/ LoginAdmin(DashBounds)
    \/ AdminCredentials(DashBounds)
    \/ LoginTechnician(DashBounds)
    \/ CloseTicket(DashBounds)
    \/ ReassignTicket(DashBounds)
    \/ Dashboard(DashBounds)
    \/ Tick(DashBounds)

SpecDash == Init /\ [][NextDash]_vars

(***************************** interleaved requests **********************)
\* a handler that answers without opening a write transaction
NoTransaction == Idle

\* a request that has read its session and the clock and is about to open
\* its transaction: the statement it will execute on tickets (an INSERT of
\* the row write, or an UPDATE setting the columns of write) and the event
\* of its timeline entry
Request(kind, ticket_id, write, event) ==
    [pc |-> "stamped", kind |-> kind, ticket_id |-> ticket_id, write |-> write,
     event |-> event, stamp |-> now, tickets |-> <<>>, timeline |-> <<>>]

\* _create_ticket up to created_at = _now_lima()
_create_ticket_request(email_from, subject, body) ==
    Request("insert", 0,
            TicketRow(email_from, subject, body, SinAsignar, Pendiente, now),
            EventCreated)

\* POST /tickets up to the transaction of _create_ticket
create_ticket_request(form) ==
    IF enforce_login("create_ticket")
    THEN NoTransaction
    ELSE _create_ticket_request(FieldOrDefault(form.email_from, DefaultEmailFrom),
                                FieldOrDefault(form.subject, DefaultSubject),
                                FieldOrDefault(form.body, DefaultBody))

\* POST /intake/email up to the transaction of _create_ticket
intake_email_request(payload) ==
    _create_ticket_request(FieldOr(payload.email_from, DefaultEmailFrom),
                           FieldOr(payload.subject, DefaultSubject),
                           FieldOr(payload.body, DefaultBody))

\* POST /tickets/<id>/close up to closed_at = _now_lima()
close_ticket_request(ticket_id) ==
    LET user == _get_user_context
    IN  IF enforce_login("close_ticket") \/ user.role \notin {"admin", "technician"}
        THEN NoTransaction
        ELSE Request("update", ticket_id,
                     [status |-> Cerrado, closed_at |-> now], EventClosed)

\* POST /tickets/<id>/assign up to assigned_at = _now_lima()
assign_ticket_request(ticket_id, email_field) ==
    LET user == _get_user_context
        technician_email == FieldOrDefault(email_field, SinAsignar)
        found == _get_technician_by_email(technician_email)
        dispatcher == IF user.identifier # Empty THEN user.identifier ELSE Str("Derivador")
        assigned_label ==
            IF found # <<>>
            THEN found[1].name \o Str(" (") \o found[1].email \o Str(")")
            ELSE SinAsignar
    IN  IF enforce_login("assign_ticket") \/ user.role # "dispatcher"
        THEN NoTransaction
        ELSE Request("update", ticket_id,
                     [assigned_to |-> technician_email, status |-> EnProgreso],
                     Str("Derivado por ") \o dispatcher \o Str(" a ") \o assigned_label)

\* POST /tickets/<id>/reassign up to its transaction (the technician is
\* looked up after the clock is read; no request of these runs changes the
\* directory in between)
reassign_ticket_request(ticket_id, email_field, note_field) ==
    LET user == _get_user_context
        technician_email == FieldOr(email_field, Empty)
        note == strip(FieldOr(note_field, Empty))
        found == _get_technician_by_email(technician_email)
        actor == IF user.identifier # Empty THEN user.identifier ELSE Str("Técnico")
        returned == Str("Devuelto al derivador")
        reassigned == Str("Reasignado por ") \o actor \o Str(" a ")
                        \o found[1].name \o Str(" (") \o found[1].email \o Str(")")
        WithNote(event) == IF note # Empty THEN event \o Str(": ") \o note ELSE event
    IN  IF enforce_login("reassign_ticket") \/ user.role # "technician"
        THEN NoTransaction
        ELSE IF technician_email = Empty
        THEN NoTransaction
        ELSE IF technician_email = DispatcherSentinel
        THEN Request("update", ticket_id,
                     [assigned_to |-> SinAsignar, status |-> Pendiente],
                     WithNote(returned))
        ELSE IF found = <<>>
        THEN NoTransaction
        ELSE Request("update", ticket_id,
                     [assigned_to |-> technician_email, status |-> EnProgreso],
                     WithNote(reassigned))

\* a variant whose connection commits each statement as it is executed
\* (sqlite3.connect(..., isolation_level=None))
FirstStatement_Autocommit(req) ==
    LET written == IF req.kind = "insert"
                   THEN Append(tickets, req.write)
                   ELSE UpdateTicket(tickets, req.ticket_id, req.write)
        ticket_id == IF req.kind = "insert" THEN Len(tickets) + 1 ELSE req.ticket_id
    IN  IF req.kind = "insert" /\ ~NotNullOk(req.write)
        THEN [request |-> Idle, tickets |-> tickets, timeline |-> timeline]
        ELSE [request |-> [req EXCEPT !.pc = "updated", !.ticket_id = ticket_id,
                                      !.tickets = written, !.timeline = timeline],
              tickets |-> written, timeline |-> timeline]

\* the first execute() of the with-block: sqlite3 opens the transaction and
\* the INSERT or UPDATE of tickets is written in the connection's own view;
\* the committed tables stay as they are.  An INSERT of None into a NOT NULL
\* column raises, the block rolls back and the request ends.
FirstStatement(req) ==
    LET written == IF req.kind = "insert"
                   THEN Append(tickets, req.write)
                   ELSE UpdateTicket(tickets, req.ticket_id, req.write)
        ticket_id == IF req.kind = "insert" THEN Len(tickets) + 1 ELSE req.ticket_id
    IN  IF req.kind = "insert" /\ ~NotNullOk(req.write)
        THEN [request |-> Idle, tickets |-> tickets, timeline |-> timeline]
        ELSE [request |-> [req EXCEPT !.pc = "updated", !.ticket_id = ticket_id,
                                      !.tickets = written, !.timeline = timeline],
              tickets |-> tickets, timeline |-> timeline]

\* the second execute(): the timeline INSERT, in the same transaction
SecondStatement(req) ==
    [request |-> [req EXCEPT !.pc = "appended",
                             !.timeline = InsertTimeline(req.timeline, req.ticket_id,
                                                         req.event, req.stamp)],
     tickets |-> tickets, timeline |-> timeline]

\* the end of the with-block: the connection commits both writes
CommitTransaction(req) ==
    [request |-> Idle, tickets |-> req.tickets, timeline |-> req.timeline]

\* the targets of the racing assignments: none, the sentinel, a technician
RaceEmailInputs == {Missing, DispatcherSentinel, LauraEmail}

RaceBounds ==
    [tickets |-> MaxTickets, timeline |-> MaxTimeline, technicians |-> MaxTechnicians,
     users |-> MaxUsers, clock |-> MaxClock, tech_id |-> 1, tech_form |-> LauraForm]

Pending(kind) == Cardinality({s \in Slots : inflight[s].pc # "idle" /\ inflight[s].kind = kind})

\* a request arrives and runs up to its transaction
Receive(req, B) ==
    /\ req # NoTransaction
    /\ req.kind = "insert" => Len(tickets) + Pending("insert") < B.tickets
    /\ Len(timeline) + Pending("insert") + Pending("update") < B.timeline
    /\ \E s \in Slots :
          /\ inflight[s] = Idle
          /\ \A r \in 1..(s - 1) : inflight[r] # Idle
          /\ inflight' = [inflight EXCEPT ![s] = req]
    /\ UNCHANGED <<tickets, timeline, technicians, users, session, now>>

ReceiveCreate(B) == \E form \in TicketForms : Receive(create_ticket_request(form), B)

ReceiveIntake(B) == \E payload \in IntakePayloads : Receive(intake_email_request(payload), B)

ReceiveClose(B) ==
    \E ticket_id \in TicketIdInputs(B) : Receive(close_ticket_request(ticket_id), B)

ReceiveAssign(B) ==
    \E ticket_id \in TicketIdInputs(B), email \in RaceEmailInputs :
        Receive(assign_ticket_request(ticket_id, email), B)

ReceiveReassign(B) ==
    \E ticket_id \in TicketIdInputs(B), email \in RaceEmailInputs, note \in NoteInputs :
        Receive(reassign_ticket_request(ticket_id, email, note), B)

\* a step of the request in slot s leaves r
Advance(s, r) ==
    /\ inflight' = [inflight EXCEPT ![s] = r.request]
    /\ tickets' = r.tickets
    /\ timeline' = r.timeline
    /\ UNCHANGED <<technicians, users, session, now>>

ExecuteFirst ==
    \E s \in Slots :
        /\ inflight[s].pc = "stamped"
        /\ LockFree
        /\ Advance(s, FirstStatement(inflight[s]))

ExecuteSecond ==
    \E s \in Slots :
        /\ inflight[s].pc = "updated"
        /\ Advance(s, SecondStatement(inflight[s]))

EndTransaction ==
    \E s \in Slots :
        /\ inflight[s].pc = "appended"
        /\ Advance(s, CommitTransaction(inflight[s]))

\* sqlite3.OperationalError (database is locked): the lock stayed taken for
\* the connection's timeout, and the request ends having written nothing
LockTimeout ==
    \E s \in Slots :
        /\ inflight[s].pc = "stamped"
        /\ ~LockFree
        /\ inflight' = [inflight EXCEPT ![s] = Idle]
        /\ UNCHANGED <<tickets, timeline, technicians, users, session, now>>

\* the desk at work: the admin has logged in, given the dispatcher and a
\* technician their credentials (admin_credentials) and logged out
DeskUsers(salt) ==
    << [UserRow(Str("admin"), AdminIdentifier,
                _hash_password(AdminPassword, salt), salt) EXCEPT !.last_login = 0],
       UserRow(Str("dispatcher"), DispatcherId, _hash_password(Clave1, salt), salt),
       UserRow(Str("technician"), LauraEmail, _hash_password(Clave1, salt), salt) >>

InitRace ==
    /\ tickets = <<>>
    /\ timeline = <<>>
    /\ technicians = init_db_technicians
    /\ \E salt \in Salts : users = DeskUsers(salt)
    /\ session = GuestSession
    /\ now = 0
    /\ inflight = [s \in Slots |-> Idle]

\* requests on one ticket interleave statement by statement
NextRace ==
    \/ ReceiveCreate(RaceBounds)
    \/ ReceiveIntake(RaceBounds)
    \/ ReceiveClose(RaceBounds)
    \/ ReceiveAssign(RaceBounds)
    \/ ReceiveReassign(RaceBounds)
    \/ ExecuteFirst
    \/ ExecuteSecond
    \/ EndTransaction
    \/ LockTimeout
    \/ LoginAdmin(RaceBounds)
    \/ LoginDispatcher(RaceBounds)
    \/ LoginTechnician(RaceBounds)
    \/ Tick(RaceBounds)

SpecRace == InitRace /\ [][NextRace]_vars

(***************************** properties ********************************)
IsPrefix(s, t) == Len(s) <= Len(t) /\ SubSeq(t, 1, Len(s)) = s

AppendsOne(s, t) == Len(t) = Len(s) + 1 /\ IsPrefix(s, t)

EntriesOf(tl, ticket_id) == SelectSeq(tl, LAMBDA e : e.ticket_id = ticket_id)

CreatedCount(tl, ticket_id) ==
    Len(SelectSeq(tl, LAMBDA e : e.ticket_id = ticket_id /\ e.event = EventCreated))

DirectoryEmails == {technicians[k].email : k \in DOMAIN technicians}

\* the outcomes of every request other than a creation, over the inputs of B
NonCreatingOutcomes(B) ==
    {close_ticket(id) : id \in TicketIdInputs(B)}
    \cup {comment_ticket(id, c) : id \in TicketIdInputs(B), c \in CommentInputs}
    \cup {reassign_ticket(x[1], x[2], x[3]) :
            x \in TicketIdInputs(B) \X TechnicianEmailInputs \X NoteInputs}
    \cup {assign_ticket(id, e) : id \in TicketIdInputs(B), e \in TechnicianEmailInputs}
    \cup {login_admin(f) : f \in LoginForms}
    \cup {login_dispatcher(f) : f \in LoginForms}
    \cup {login_technician(f) : f \in LoginForms}
    \cup {logout}
    \cup {admin_technicians(f) : f \in TechnicianForms}
    \cup {update_technician(x[1], x[2]) : x \in TechIdInputs(B) \X UpdateForms(B)}
    \cup {disable_technician(id) : id \in TechIdInputs(B)}
    \cup {admin_credentials(x[1], x[2]) : x \in CredentialForms \X Salts}

\* the outcomes of the two creating requests that the server accepts
CreatingOutcomes ==
    {create_ticket(f) : f \in {g \in TicketForms : ~enforce_login("create_ticket")}}
    \cup {intake_email(p) : p \in {q \in IntakePayloads : ~_create_ticket(
              FieldOr(q.email_from, DefaultEmailFrom), FieldOr(q.subject, DefaultSubject),
              FieldOr(q.body, DefaultBody)).raised}}

\* C1: a ticket has a closed timestamp exactly when its status is Cerrado.
\* The code breaks it: reassign_ticket and assign_ticket rewrite the status
\* of a closed ticket and leave closed_at as it was.
C1_ClosedAtIffClosed ==
    \A i \in DOMAIN tickets :
        (tickets[i].closed_at # NULL) <=> (tickets[i].status = Cerrado)

\* C2: every ticket has exactly one "Ticket creado" entry: a creation writes
\* one for the new ticket, and no other request changes any ticket's count.
C2_OneCreatedEntry ==
    /\ \A i \in DOMAIN tickets : CreatedCount(timeline, i) = 1
    /\ \A o \in CreatingOutcomes :
          /\ CreatedCount(o.timeline, o.response.ticket_id) = 1
          /\ \A i \in DOMAIN tickets : CreatedCount(o.timeline, i) = 1
    /\ \A o \in NonCreatingOutcomes(PairBounds) :
          \A i \in TicketIdInputs(PairBounds) :
              CreatedCount(o.timeline, i) = CreatedCount(timeline, i)

C2_Witness ==
    /\ Len(tickets) = 2
    /\ CreatedCount(timeline, 1) = 1
    /\ CreatedCount(timeline, 2) = 1

\* C3: a creation inserts a ticket that is Pendiente, "Sin asignar" and has
\* no closed timestamp, answers with an id no existing ticket has, and
\* leaves every existing ticket as it was.
C3_CreateInsertsPending ==
    \A o \in CreatingOutcomes :
        LET id == o.response.ticket_id
        IN  /\ id \notin DOMAIN tickets
            /\ DOMAIN o.tickets = DOMAIN tickets \cup {id}
            /\ o.tickets[id].status = Pendiente
            /\ o.tickets[id].assigned_to = SinAsignar
            /\ o.tickets[id].closed_at = NULL
            /\ \A i \in DOMAIN tickets : o.tickets[i] = tickets[i]

\* a second ticket was created, later, beside the first one
C3_Witness ==
    /\ Len(tickets) = 2
    /\ tickets[1].created_at < tickets[2].created_at
    /\ timeline[2] = TimelineRow(2, EventCreated, tickets[2].created_at)
    /\ tickets[2].status = Pendiente
    /\ tickets[2].assigned_to = SinAsignar
    /\ tickets[2].closed_at = NULL

\* C4: a close by an admin or technician session leaves the ticket Cerrado
\* with closed_at the time of this close (so a second close re-stamps it),
\* changes no other ticket and appends one "Ticket cerrado" entry.
C4_CloseStamps ==
    \A id \in TicketIdInputs(DeskBounds) :
        _get_user_context.role \in {"admin", "technician"} =>
            LET o == close_ticket(id)
            IN  /\ DOMAIN o.tickets = DOMAIN tickets
                /\ \A i \in DOMAIN tickets :
                      IF i = id
                      THEN /\ o.tickets[i].status = Cerrado
                           /\ o.tickets[i].closed_at = now
                      ELSE o.tickets[i] = tickets[i]
                /\ o.timeline = Append(timeline, TimelineRow(id, EventClosed, now))

\* ticket 1 was closed at time 0 and closed again at time 1
C4_Witness ==
    /\ Len(tickets) = 1
    /\ tickets[1].status = Cerrado
    /\ tickets[1].closed_at = 1
    /\ Len(timeline) = 3
    /\ timeline[2] = TimelineRow(1, EventClosed, 0)
    /\ timeline[3] = TimelineRow(1, EventClosed, 1)

\* C5: every "En progreso" ticket is assigned to a technician of the
\* directory.  assign_ticket breaks it: it looks the technician up only to
\* word the timeline entry, and sets "En progreso" whatever it found.
C5_InProgressHasTechnician ==
    \A i \in DOMAIN tickets :
        tickets[i].status = EnProgreso => tickets[i].assigned_to \in DirectoryEmails

\* a text the handlers take for no text at all
IsBlank(field) == field = Missing \/ \A k \in DOMAIN field : field[k] = Blank

C7_CommentFrame ==
    \A id \in TicketIdInputs(DeskBounds), comment \in CommentInputs :
        _get_user_context.role = "technician" =>
            LET o == comment_ticket(id, comment)
            IN  /\ o.tickets = tickets
                /\ IF IsBlank(comment)
                   THEN o.timeline = timeline
                   ELSE /\ AppendsOne(timeline, o.timeline)
                        /\ o.timeline[Len(o.timeline)].ticket_id = id

\* a technician commented on ticket 1 after it was assigned to them
C7_Witness ==
    /\ Len(tickets) = 1
    /\ tickets[1].status = EnProgreso
    /\ Len(timeline) = 3
    /\ timeline[3].ticket_id = 1
    /\ timeline[3].event[1] = "Comentario técnico: "

\* C8: a request by a session whose role the operation does not admit is
\* answered by a redirect and changes neither tickets nor timeline.
C8_RoleGating ==
    LET role == _get_user_context.role
        Refused(o) ==
            /\ o.response.status = 302
            /\ o.tickets = tickets
            /\ o.timeline = timeline
    IN  /\ role \notin {"admin", "technician"} =>
              \A id \in TicketIdInputs(DeskBounds) : Refused(close_ticket(id))
        /\ role # "technician" =>
              /\ \A id \in TicketIdInputs(DeskBounds), c \in CommentInputs :
                    Refused(comment_ticket(id, c))
              /\ \A id \in TicketIdInputs(DeskBounds), e \in TechnicianEmailInputs,
                    n \in NoteInputs : Refused(reassign_ticket(id, e, n))
        /\ role # "dispatcher" =>
              \A id \in TicketIdInputs(DeskBounds), e \in TechnicianEmailInputs :
                  Refused(assign_ticket(id, e))

\* a dispatcher session faces an open ticket it may not close or comment on
C8_Witness ==
    /\ _get_user_context.role = "dispatcher"
    /\ Len(tickets) = 1
    /\ tickets[1].status = EnProgreso
    /\ Len(timeline) = 2

C10_TimelineForeignKey ==
    \A i \in DOMAIN timeline : timeline[i].ticket_id \in DOMAIN tickets

\* C11: the committed tables, which are all that another request can read,
\* change only when a transaction commits, and then the ticket write and
\* its timeline entry appear together: no step shows one without the other.
C11_AtomicMutation ==
    [][ (tickets' # tickets \/ timeline' # timeline) =>
            \E s \in Slots :
                LET req == inflight[s]
                IN  /\ req.pc = "appended"
                    /\ inflight'[s] = Idle
                    /\ tickets' = IF req.kind = "insert"
                                  THEN Append(tickets, req.write)
                                  ELSE UpdateTicket(tickets, req.ticket_id, req.write)
                    /\ req.kind = "insert" => req.ticket_id = Len(tickets) + 1
                    /\ timeline' = Append(timeline,
                                          TimelineRow(req.ticket_id, req.event, req.stamp))
      ]_vars

\* a request has updated ticket 1 inside its transaction, the committed row
\* still shows the old values, and a second request waits for the lock
C11_Witness ==
    \E s \in Slots, r \in Slots :
        /\ inflight[s].pc = "updated"
        /\ inflight[s].kind = "update"
        /\ Len(tickets) = 1
        /\ inflight[s].tickets[1] # tickets[1]
        /\ inflight[r].pc = "stamped"

\* the timeline entries, in commit order, of the requests that wrote ticket
\* ticket_id once it existed (close, assign, reassign): those that follow
\* its "Ticket creado" entry
WritesOf(tl, ticket_id) ==
    LET born == {k \in DOMAIN tl :
                    tl[k].ticket_id = ticket_id /\ tl[k].event = EventCreated}
        since == IF born = {} THEN <<>>
                 ELSE SubSeq(tl, (CHOOSE k \in born : TRUE) + 1, Len(tl))
    IN  SelectSeq(since, LAMBDA e : e.ticket_id = ticket_id)

\* C12: last write wins.  For every ticket, the request that committed last
\* (its entry is the last one in commit order) determines the row: a close
\* leaves Cerrado with its own closed_at, a return to the dispatcher leaves
\* Pendiente and "Sin asignar", an assignment leaves "En progreso"; and that
\* entry is also the last one by timestamp.  The code breaks the last part:
\* a handler reads the clock before it opens its transaction, so the request
\* that commits last may carry the earlier timestamp.
C12_LastWriteWins ==
    \A i \in DOMAIN tickets :
        LET writes == WritesOf(timeline, i)
            last == writes[Len(writes)]
        IN  writes # <<>> =>
                /\ last.event = EventClosed =>
                        /\ tickets[i].status = Cerrado
                        /\ tickets[i].closed_at = last.created_at
                /\ last.event[1] = "Devuelto al derivador" =>
                        /\ tickets[i].status = Pendiente
                        /\ tickets[i].assigned_to = SinAsignar
                /\ last.event[1] \in {"Derivado por ", "Reasignado por "} =>
                        tickets[i].status = EnProgreso
                /\ \A k \in DOMAIN writes : writes[k].created_at <= last.created_at

\* C13: the metrics of the tickets table: total is the number of tickets,
\* open the number of those without a closed timestamp, closed the number
\* of the others, total = open + closed; the dashboard of an admin or
\* dispatcher session shows these.
C13_MetricsCounts ==
    LET m == _calculate_metrics(tickets)
    IN  /\ m.total = Len(tickets)
        /\ m.open = Cardinality({i \in DOMAIN tickets : tickets[i].closed_at = NULL})
        /\ m.closed = Cardinality({i \in DOMAIN tickets : tickets[i].closed_at # NULL})
        /\ m.total = m.open + m.closed
        /\ _get_user_context.role \in {"admin", "dispatcher"} => dashboard.metrics = m

\* an admin session reads the dashboard with one ticket closed and one open
C13_Witness ==
    /\ _get_user_context.role = "admin"
    /\ Len(tickets) = 2
    /\ tickets[1].closed_at # NULL
    /\ tickets[2].closed_at = NULL
    /\ dashboard.metrics = [total |-> 2, open |-> 1, closed |-> 1, avg_hours |-> 50]

\* C14: when no ticket has a closed timestamp (no ticket at all included),
\* the average resolution time is 0.
C14_NoClosedAverageZero ==
    (\A i \in DOMAIN tickets : tickets[i].closed_at = NULL) =>
        _calculate_metrics(tickets).avg_hours = 0

\* two tickets have been open while the clock moved on
C14_Witness ==
    /\ Len(tickets) = 2
    /\ \A i \in DOMAIN tickets : tickets[i].closed_at = NULL
    /\ tickets[1].created_at < now
    /\ dashboard.metrics = [total |-> 2, open |-> 2, closed |-> 0, avg_hours |-> 0]

\* a text that contains the word
Contains(text, word) == \E k \in DOMAIN text : text[k] = word

\* the technicians of the networking specialty
RedesEmails ==
    {technicians[k].email : k \in {j \in DOMAIN technicians :
                                       technicians[j].specialty = Str("Redes")}}

\* C15: a step that creates a ticket whose subject or body contains "red"
\* leaves it assigned to the technician of specialty Redes.  The code breaks
\* it: _create_ticket stores "Sin asignar" whatever the texts say.
C15_AutoRouting ==
    [][ \A i \in DOMAIN tickets' :
            (i \notin DOMAIN tickets
                /\ (Contains(tickets'[i].subject, "red")
                        \/ Contains(tickets'[i].body, "red")))
            => tickets'[i].assigned_to \in RedesEmails ]_vars

\* C16: a creation never fails, by the form or by the JSON endpoint, with
\* fields absent, empty or null, and every stored ticket has a requester
\* email, a subject and a body that are not empty.  The code breaks it on
\* the JSON endpoint: payload.get(key, default) keeps "" and null; "" is
\* stored as it is and null fails the NOT NULL constraint.
C16_DefaultsSubstituted ==
    /\ \A i \in DOMAIN tickets :
          /\ tickets[i].email_from \notin {Empty, None, Missing}
          /\ tickets[i].subject \notin {Empty, None, Missing}
          /\ tickets[i].body \notin {Empty, None, Missing}
    /\ \A payload \in IntakeJson : intake_email(payload).response.status = 200
    /\ \A form \in IntakeForms : create_ticket(form).response.status = 302

\* the outcomes of every request that is neither a login nor the JSON intake
ClosedOutcomes(B) ==
    {create_ticket(f) : f \in TicketForms}
    \cup {close_ticket(id) : id \in TicketIdInputs(B)}
    \cup {comment_ticket(id, c) : id \in TicketIdInputs(B), c \in CommentInputs}
    \cup {reassign_ticket(x[1], x[2], x[3]) :
            x \in TicketIdInputs(B) \X TechnicianEmailInputs \X NoteInputs}
    \cup {assign_ticket(id, e) : id \in TicketIdInputs(B), e \in TechnicianEmailInputs}
    \cup {logout}
    \cup {dashboard.outcome}
    \cup {admin_technicians(f) : f \in TechnicianForms}
    \cup {update_technician(x[1], x[2]) : x \in TechIdInputs(B) \X UpdateForms(B)}
    \cup {disable_technician(id) : id \in TechIdInputs(B)}
    \cup {admin_credentials(x[1], x[2]) : x \in CredentialForms \X Salts}

\* C17: while the session is a guest's, every request other than a login or
\* the JSON intake is answered by the redirect to the login page and leaves
\* tickets, timeline, technicians, users and the session as they were.
C17_GuestChangesNothing ==
    _get_user_context.role = "guest" =>
        \A o \in ClosedOutcomes(DeskBounds) :
            /\ o.response = Redirect("login_home", 0)
            /\ o.tickets = tickets
            /\ o.timeline = timeline
            /\ o.technicians = technicians
            /\ o.users = users
            /\ o.session = session

\* a guest (after a logout) faces a desk with a ticket and an added credential
C17_Witness ==
    /\ _get_user_context.role = "guest"
    /\ Len(tickets) = 1
    /\ Len(timeline) >= 2
    /\ Len(users) >= 2

\* the identifier and password match a credential record stored for the role
Matches(role, identifier, password) ==
    /\ identifier # Empty
    /\ password # Empty
    /\ \E k \in DOMAIN users :
          /\ users[k].role = role
          /\ users[k].identifier = identifier
          /\ users[k].password_hash = _hash_password(password, users[k].salt)

\* a login request leaves everything but the response as it was
FailedLogin(o) ==
    /\ o.session = session
    /\ o.users = users
    /\ o.tickets = tickets
    /\ o.timeline = timeline
    /\ o.technicians = technicians

\* C18: the session's role.  In every state: a non-guest session names a
\* credential record of its role; a login whose identifier and password
\* match no record of the role it asks for (unknown identifier, wrong
\* password, nothing typed, a record of another role) changes neither the
\* session nor the tables; logout leaves a guest session.  In every step: a
\* session that becomes a non-guest session does so by a login whose
\* identifier and password match a record stored for that role.
C18_RoleOnlyByLogin ==
    /\ [](/\ session.role # "guest" =>
                \E k \in DOMAIN users :
                    /\ users[k].role = Str(session.role)
                    /\ users[k].identifier = session.user_identifier
           /\ \A form \in LoginForms :
                LET stripped == strip(FieldOr(form.identifier, Empty))
                    typed == FieldOr(form.identifier, Empty)
                    password == FieldOr(form.password, Empty)
                IN  /\ ~Matches(Str("admin"), stripped, password)
                          => FailedLogin(login_admin(form))
                    /\ ~Matches(Str("dispatcher"), stripped, password)
                          => FailedLogin(login_dispatcher(form))
                    /\ ~Matches(Str("technician"), typed, password)
                          => FailedLogin(login_technician(form))
           /\ logout.session = GuestSession)
    /\ [][ (session' # session /\ session'.role # "guest") =>
              \E form \in LoginForms :
                  /\ strip(FieldOr(form.identifier, Empty)) = session'.user_identifier
                  /\ Matches(Str(session'.role), session'.user_identifier,
                             FieldOr(form.password, Empty)) ]_vars

\* a technician is logged in with the credential the admin stored, while
\* the admin's identifier with the technician's password opens nothing
C18_Witness ==
    /\ session.role = "technician"
    /\ session.user_identifier = LauraEmail
    /\ \E k \in DOMAIN users :
          users[k].identifier = LauraEmail /\ users[k].last_login # NULL
    /\ ~Matches(Str("admin"), AdminIdentifier, Clave1)
    /\ Matches(Str("admin"), AdminIdentifier, AdminPassword)

\* C19: Cerrado is final: no step takes a ticket whose status is Cerrado to
\* another status.  The code breaks it: assign_ticket and reassign_ticket
\* never read the current status, so they reopen a closed ticket.
C19_ClosedIsFinal ==
    [][ \A i \in DOMAIN tickets :
            tickets[i].status = Cerrado => tickets'[i].status = Cerrado ]_vars

\* C20: a ticket that is not Cerrado is Pendiente exactly when it is
\* assigned to "Sin asignar".  The code breaks it: assign_ticket without a
\* technician email stores "Sin asignar" and "En progreso".
C20_PendingIffUnassigned ==
    \A i \in DOMAIN tickets :
        tickets[i].status # Cerrado =>
            (tickets[i].status = Pendiente <=> tickets[i].assigned_to = SinAsignar)

\* the technicians whose active flag is off
DisabledEmails ==
    {technicians[k].email : k \in {j \in DOMAIN technicians :
                                       technicians[j].is_active = 0}}

\* C21: no step gives a ticket to a technician whose active flag is off
\* when the step is taken.  The code breaks it: assign_ticket stores the
\* email it is given, and _get_technician_by_email, which reassign_ticket
\* relies on, selects by email alone.
C21_NoDisabledAssignee ==
    [][ \A i \in DOMAIN tickets :
            tickets'[i].assigned_to # tickets[i].assigned_to
                => tickets'[i].assigned_to \notin DisabledEmails ]_vars

\* credential forms an admin may post: those of CredentialForms, a changed
\* password for each stored identifier, an identifier held under the other
\* role, a blank identifier and an empty password
UpsertForms ==
    CredentialForms \cup
    { [action |-> Missing, role |-> Str("dispatcher"),
       identifier |-> DispatcherId, password |-> Clave2],
      [action |-> Missing, role |-> Str("technician"),
       identifier |-> LauraEmail, password |-> Clave2],
      [action |-> Missing, role |-> Str("technician"),
       identifier |-> DispatcherId, password |-> Clave2],
      [action |-> Missing, role |-> Str("dispatcher"),
       identifier |-> <<Blank>>, password |-> Clave2],
      [action |-> Missing, role |-> Str("dispatcher"),
       identifier |-> UnknownEmail, password |-> Empty],
      [action |-> Str("update_admin"), role |-> Missing,
       identifier |-> Missing, password |-> Clave2] }

Passwords == {AdminPassword, Clave1, Clave2}

\* a login of the role with the identifier and password against the table us
AuthenticatesWith(us, role, identifier, password) ==
    /\ identifier # Empty
    /\ password # Empty
    /\ \E k \in DOMAIN us :
          /\ us[k].role = role
          /\ us[k].identifier = identifier
          /\ us[k].password_hash = _hash_password(password, us[k].salt)

\* every record of the table us that users holds is as it was, except the
\* one of (role, identifier)
OthersKept(us, role, identifier) ==
    /\ Len(us) >= Len(users)
    /\ \A k \in DOMAIN users :
          (users[k].role # role \/ users[k].identifier # identifier)
              => us[k] = users[k]

\* C22: when an admin posts the credentials form, (1) an upsert of
\* (role, identifier, password) for role dispatcher or technician leaves
\* exactly one record with the identifier, a login of the role with the
\* password then succeeds and one with a password stored for it before (and
\* replaced) fails; (2) no post adds a second admin record or changes the
\* record of another user; (3) an upsert with an unsupported role, an empty
\* identifier or an empty password leaves the users table as it was.
\* The code breaks (1): identifier is UNIQUE over all roles while
\* _upsert_user looks the row up by (role, identifier), so the INSERT of an
\* identifier held under another role raises.
C22_CredentialUpsert ==
    session.role = "admin" =>
        \A form \in UpsertForms, salt \in Salts :
            LET o == admin_credentials(form, salt)
                action == FieldOr(form.action, Str("upsert"))
                role == strip(FieldOr(form.role, Empty))
                identifier == strip(FieldOr(form.identifier, Empty))
                password == FieldOr(form.password, Empty)
                supported == /\ role \in {Str("dispatcher"), Str("technician")}
                             /\ identifier # Empty
                             /\ password # Empty
                replaced == {p \in Passwords \ {password} :
                                AuthenticatesWith(users, role, identifier, p)}
            IN  /\ (action # Str("update_admin") /\ supported) =>
                       /\ Cardinality({k \in DOMAIN o.users :
                                          o.users[k].identifier = identifier}) = 1
                       /\ AuthenticatesWith(o.users, role, identifier, password)
                       /\ \A p \in replaced :
                              ~AuthenticatesWith(o.users, role, identifier, p)
                       /\ OthersKept(o.users, role, identifier)
                /\ Cardinality({k \in DOMAIN o.users :
                                   o.users[k].role = Str("admin")}) = 1
                /\ action = Str("update_admin") =>
                       OthersKept(o.users, Str("admin"), session.user_identifier)
                /\ (action # Str("update_admin") /\ ~supported) => o.users = users

====
